---- MODULE Spec2Model ----
(***************************************************************************)
(* Model of Milestone1.ipynb: the notebook loads two CSV tables, merges    *)
(* them on show_id and runs four analysis functions on the merged table.   *)
(* Each code cell of the notebook is one action.  pandas tables are        *)
(* records [kind, cols, rows]; a row is a function from column names to    *)
(* Python objects; a Python str is held as the syntax tree of its text so  *)
(* that eval() can be computed on it.                                      *)
(***************************************************************************)
EXTENDS Integers, Sequences, FiniteSets, TLC

VARIABLES
    pc,             \* next notebook cell: "load", "merge", "analysis"
    netflix_df,     \* global netflix_df
    viewership_df,  \* global viewership_df
    data,           \* global data (unbound until the merge cell binds it)
    last,           \* the cell executed last
    error,          \* the exception that ended the last cell, or "none"
    printed,        \* what the last cell printed
    shown,          \* the figures the last cell rendered (fig.show())
    frame,          \* the last call's locals around .explode('genres')
    effects         \* commands run by code that eval() took from the data

vars == <<pc, netflix_df, viewership_df, data, last, error, printed, shown,
          frame, effects>>

----------------------------------------------------------------------------
(* Bounds of the model *)

MaxRows == 2

YearSpan == 6

----------------------------------------------------------------------------
(* Python objects *)

Unbound == [kind |-> "unbound"]

None == [kind |-> "None"]

PyInt(n) == [ty |-> "int", v |-> n]

PyStr(t) == [ty |-> "str", text |-> t]

PyList(xs) == [ty |-> "list", items |-> xs]

NaN == [ty |-> "nan"]

IsNull(x) == x.ty = "nan"

\* Texts, as syntax trees of Python source
Word(w) == [k |-> "word", id |-> w]

Quote(t) == [k |-> "quote", of |-> t]

ListLit(ws) == [k |-> "list", elems |-> ws]

Call(c, t) == [k |-> "call", cmd |-> c, then |-> t]

S(w) == PyStr(Word(w))

DataFrame(cols, rows) == [kind |-> "DataFrame", cols |-> cols, rows |-> rows]

IsFrame(x) == x.kind = "DataFrame"

\* eval(x) of line 168 / 233 on the text t of a str: the value, the exception
\* and the commands the evaluated expression ran.
RECURSIVE PyEval(_)
PyEval(t) ==
    CASE t.k = "list"  -> [raised |-> "none",
                           value |-> PyList([i \in 1..Len(t.elems) |-> S(t.elems[i])]),
                           ran |-> {}]
      [] t.k = "quote" -> [raised |-> "none", value |-> PyStr(t.of), ran |-> {}]
      [] t.k = "word"  -> [raised |-> "NameError", value |-> NaN, ran |-> {}]
      [] t.k = "call"  -> LET rest == PyEval(t.then)
                          IN  [rest EXCEPT !.ran = {t.cmd} \cup rest.ran]

\* lambda x: eval(x) if isinstance(x, str) else x
ParseCell(x) ==
    IF x.ty = "str" THEN PyEval(x.text)
    ELSE [raised |-> "none", value |-> x, ran |-> {}]

\* Series.apply(lambda ...) over the genres column, row by row: stops at the
\* first exception; the commands run up to there have been run.
RECURSIVE ApplyParse(_, _)
ApplyParse(rows, i) ==
    IF i > Len(rows) THEN [raised |-> "none", rows |-> rows, ran |-> {}]
    ELSE LET p == ParseCell(rows[i]["genres"])
         IN  IF p.raised # "none"
             THEN [raised |-> p.raised, rows |-> rows, ran |-> p.ran]
             ELSE LET rest == ApplyParse([rows EXCEPT ![i]["genres"] = p.value], i + 1)
                  IN  [rest EXCEPT !.ran = p.ran \cup rest.ran]

----------------------------------------------------------------------------
(* pandas operations *)

\* df.rename(columns={'id': 'show_id'}, inplace=True), guarded by
\* "if 'id' in df.columns"
RenameId(df) ==
    IF "id" \in df.cols
    THEN LET cols == (df.cols \ {"id"}) \cup {"show_id"}
         IN  DataFrame(cols,
                 [i \in 1..Len(df.rows) |->
                     [c \in cols |-> IF c = "show_id" THEN df.rows[i]["id"]
                                     ELSE df.rows[i][c]]])
    ELSE df

\* The rows of right that match the left row on show_id, in right's order,
\* each joined to the left row.
RECURSIVE Matches(_, _, _)
Matches(l, right, j) ==
    IF j > Len(right) THEN <<>>
    ELSE (IF right[j]["show_id"] = l["show_id"] THEN <<l @@ right[j]>> ELSE <<>>)
         \o Matches(l, right, j + 1)

RECURSIVE JoinRows(_, _, _)
JoinRows(left, right, i) ==
    IF i > Len(left) THEN <<>>
    ELSE Matches(left[i], right, 1) \o JoinRows(left, right, i + 1)

\* A merge that keeps one row per left row: its first match only
RECURSIVE FirstMatchRows(_, _, _)
FirstMatchRows(left, right, i) ==
    IF i > Len(left) THEN <<>>
    ELSE LET m == Matches(left[i], right, 1)
         IN  (IF m = <<>> THEN <<>> ELSE <<m[1]>>) \o FirstMatchRows(left, right, i + 1)

InnerMergeFirstMatch(left, right) ==
    DataFrame(left.cols \cup right.cols, FirstMatchRows(left.rows, right.rows, 1))

\* pd.merge(left, right, on='show_id', how='inner')
InnerMerge(left, right) ==
    DataFrame(left.cols \cup right.cols, JoinRows(left.rows, right.rows, 1))

\* An explosion that drops the rows whose list is empty
ExplodeRowDroppingEmpty(r) ==
    LET g == r["genres"]
    IN  IF g.ty = "list"
        THEN [j \in 1..Len(g.items) |-> [r EXCEPT !["genres"] = g.items[j]]]
        ELSE <<r>>

\* The rows one source row becomes under DataFrame.explode('genres'): one per
\* element of a list, one with NaN for an empty list, the row itself for a
\* scalar.
ExplodeRow(r) ==
    LET g == r["genres"]
    IN  IF g.ty = "list"
        THEN IF Len(g.items) = 0
             THEN <<[r EXCEPT !["genres"] = NaN]>>
             ELSE [j \in 1..Len(g.items) |-> [r EXCEPT !["genres"] = g.items[j]]]
        ELSE <<r>>

RECURSIVE Explode(_, _)
Explode(rows, i) ==
    IF i > Len(rows) THEN <<>>
    ELSE ExplodeRow(rows[i]) \o Explode(rows, i + 1)

\* df[df[col] == val]
Filter(rows, col, val) == SelectSeq(rows, LAMBDA r : r[col] = val)

\* The quotient without the scaling back to years
BucketUnscaled(y) == y \div 5

\* (release_year // 5) * 5
Bucket(y) == (y \div 5) * 5

\* df['year_interval'] = (df['release_year'] // 5) * 5
WithYearInterval(df) ==
    LET cols == df.cols \cup {"year_interval"}
    IN  DataFrame(cols,
            [i \in 1..Len(df.rows) |->
                [c \in cols |-> IF c = "year_interval"
                                THEN PyInt(Bucket(df.rows[i]["release_year"].v))
                                ELSE df.rows[i][c]]])

\* The rows groupby([a, b]) keeps: those with no null key (dropna=True)
Keyed(rows, a, b) ==
    {i \in 1..Len(rows) : ~IsNull(rows[i][a]) /\ ~IsNull(rows[i][b])}

GroupKeys(rows, a, b) == {<<rows[i][a], rows[i][b]>> : i \in Keyed(rows, a, b)}

Group(rows, a, b, key) ==
    {i \in Keyed(rows, a, b) : <<rows[i][a], rows[i][b]>> = key}

\* groupby([a, b]).size()
GroupSize(rows, a, b) ==
    [key \in GroupKeys(rows, a, b) |-> PyInt(Cardinality(Group(rows, a, b, key)))]

RECURSIVE SumOver(_, _, _)
SumOver(rows, idx, m) ==
    IF idx = {} THEN 0
    ELSE LET i == CHOOSE j \in idx : TRUE
         IN  rows[i][m].v + SumOver(rows, idx \ {i}, m)

\* groupby([a, b])[m].sum()
GroupSum(rows, a, b, m) ==
    [key \in GroupKeys(rows, a, b) |-> PyInt(SumOver(rows, Group(rows, a, b, key), m))]

\* Series.unstack(fill_value=fill): one row per first key, one column per
\* second key; fill where the series has no entry (NaN when no fill_value
\* is given).
Unstack(series, fill) ==
    LET index   == {key[1] : key \in DOMAIN series}
        columns == {key[2] : key \in DOMAIN series}
    IN  [index |-> index, columns |-> columns,
         cell |-> [p \in index \X columns |->
                      IF p \in DOMAIN series THEN series[p] ELSE fill]]

\* wide.reset_index().melt(id_vars=<index name>): the long table, one row
\* per (index value, column) of the wide table.  Row order is not modelled.
Melt(wide) ==
    {[d1 |-> i, d2 |-> c, value |-> wide.cell[<<i, c>>]] :
        i \in wide.index, c \in wide.columns}

\* wide.loc[region].reset_index(), columns renamed to Genre, Count
GenreCounts(wide, region) ==
    {[d1 |-> region, d2 |-> c, value |-> wide.cell[<<region, c>>]] :
        c \in wide.columns}

RECURSIVE SumValues(_)
SumValues(table) ==
    IF table = {} THEN 0
    ELSE LET r == CHOOSE x \in table : TRUE
         IN  r.value.v + SumValues(table \ {r})

Figure(kind, title, table) == [kind |-> kind, title |-> title, table |-> table]

Msg(text, about) == [msg |-> text, about |-> about]

----------------------------------------------------------------------------
(* The analysis functions.  Each yields the table its argument is afterwards *)
(* (the argument is the caller's object, changed in place), the exception    *)
(* that ended it, what it rendered and printed, the commands eval() ran and  *)
(* its locals around the explosion.                                          *)

NoFrame == [did |-> FALSE, pre |-> <<>>, exploded |-> <<>>]

Exploding(pre, exploded) == [did |-> TRUE, pre |-> pre, exploded |-> exploded]

Result(d, err, figs, msgs, ran, fr) ==
    [data |-> d, error |-> err, shown |-> figs, printed |-> msgs, ran |-> ran,
     frame |-> fr]

plot_movies_vs_shows(d) ==
    IF "release_year" \notin d.cols
    THEN Result(d, "KeyError", {}, {}, {}, NoFrame)
    ELSE LET d1 == WithYearInterval(d)
         IN  IF "type" \notin d1.cols
             THEN Result(d1, "KeyError", {}, {}, {}, NoFrame)
             ELSE LET wide == Unstack(GroupSize(d1.rows, "year_interval", "type"),
                                      PyInt(0))
                  IN  Result(d1, "none",
                             {Figure("bar", S("Movies vs TV Shows Over 5-Year Intervals"),
                                     Melt(wide))},
                             {}, {}, NoFrame)

plot_genre_popularity(d) ==
    IF "genres" \notin d.cols
    THEN Result(d, "none", {},
                {Msg("No 'genres' column found. Please check the dataset.", None)},
                {}, NoFrame)
    ELSE IF "type" \notin d.cols
    THEN Result(d, "KeyError", {}, {}, {}, NoFrame)
    ELSE LET tv_shows == Filter(d.rows, "type", S("SHOW"))
             parsed   == ApplyParse(tv_shows, 1)
         IN  IF parsed.raised # "none"
             THEN Result(d, parsed.raised, {}, {}, parsed.ran, NoFrame)
             ELSE LET tv_shows_exploded == Explode(parsed.rows, 1)
                      fr == Exploding(parsed.rows, tv_shows_exploded)
                  IN  IF "release_year" \notin d.cols
                      THEN Result(d, "KeyError", {}, {}, parsed.ran, fr)
                      ELSE LET with == WithYearInterval(
                                           DataFrame(d.cols, tv_shows_exploded))
                               wide == Unstack(GroupSize(with.rows, "year_interval",
                                                         "genres"), PyInt(0))
                           IN  Result(d, "none",
                                      {Figure("bar",
                                          S("Popularity of TV Show Genres Over 5-Year Intervals"),
                                          Melt(wide))},
                                      {}, parsed.ran, fr)

plot_genre_distribution_by_region(d) ==
    IF "genres" \notin d.cols \/ "viewer_region" \notin d.cols
    THEN Result(d, "none", {},
                {Msg("The 'genres' or 'viewer_region' column is not found in the dataset.",
                     None)},
                {}, NoFrame)
    ELSE LET parsed == ApplyParse(d.rows, 1)
         IN  IF parsed.raised # "none"
             THEN Result(d, parsed.raised, {}, {}, parsed.ran, NoFrame)
             ELSE LET d1 == DataFrame(d.cols, parsed.rows)
                      data_exploded == Explode(d1.rows, 1)
                      wide == Unstack(GroupSize(data_exploded, "viewer_region",
                                                "genres"), PyInt(0))
                      empty == {region \in wide.index :
                                   SumValues(GenreCounts(wide, region)) = 0}
                  IN  Result(d1, "none",
                             {Figure("pie", region, GenreCounts(wide, region)) :
                                 region \in wide.index \ empty},
                             {Msg("No genre data available. Skipping plot.", region) :
                                 region \in empty},
                             parsed.ran, Exploding(d1.rows, data_exploded))

plot_viewership_by_age_and_region(d) ==
    IF {"viewer_age_group", "viewer_region", "viewership_count"} \subseteq d.cols
    THEN LET wide == Unstack(GroupSum(d.rows, "viewer_age_group", "viewer_region",
                                      "viewership_count"), NaN)
         IN  Result(d, "none",
                    {Figure("bar", S("Stacked Viewership by Age Group and Region"),
                            Melt(wide))},
                    {}, {}, NoFrame)
    ELSE Result(d, "KeyError", {}, {}, {}, NoFrame)

Analyses == {"plot_movies_vs_shows", "plot_genre_popularity",
             "plot_genre_distribution_by_region",
             "plot_viewership_by_age_and_region"}

Run(f, d) ==
    CASE f = "plot_movies_vs_shows" -> plot_movies_vs_shows(d)
      [] f = "plot_genre_popularity" -> plot_genre_popularity(d)
      [] f = "plot_genre_distribution_by_region" -> plot_genre_distribution_by_region(d)
      [] f = "plot_viewership_by_age_and_region" -> plot_viewership_by_age_and_region(d)

----------------------------------------------------------------------------
(* The remote CSV files: the inputs of a run.  The content file lists one   *)
(* title per row; the viewership file one observation per row.              *)

Types == {"MOVIE", "SHOW"}

Years == {2019, 2021}

\* Texts of the genres column: "[]", "['Drama', 'Comedy']", "'Comedy'" and
\* "__import__('os').system('id') or ['Drama']"
GenreTexts == {ListLit(<<>>), ListLit(<<"Drama", "Comedy">>), Quote(Word("Comedy")),
               Call("id", ListLit(<<"Drama">>))}

AgeGroups == {"18-25", "26-35"}

Regions == {"US", "UK"}

KeyNames == {"id", "show_id"}

NetflixColumns == {"type", "release_year", "genres"}

ViewershipColumns == {"viewer_age_group", "viewer_region", "viewership_count"}

Titles(types, years, texts) ==
    {[type |-> S(t), release_year |-> PyInt(y), genres |-> PyStr(g)] :
        t \in types, y \in years, g \in texts}

Observations(ages, regions) ==
    {[viewer_age_group |-> S(a), viewer_region |-> S(r),
      viewership_count |-> PyInt(100)] : a \in ages, r \in regions}

SeqsUpTo(rows, n) == UNION {[1..m -> rows] : m \in 0..n}

\* Tables of at most MaxRows rows whose i-th row has key i
Numbered(rows) ==
    {[i \in 1..Len(t) |-> [show_id |-> PyInt(i)] @@ t[i]] : t \in SeqsUpTo(rows, MaxRows)}

\* Tables of at most MaxRows rows with any keys of 1..MaxRows, repeated or not
AnyKeys(rows) ==
    SeqsUpTo({[show_id |-> PyInt(i)] @@ r : i \in 1..MaxRows, r \in rows}, MaxRows)

\* A CSV file whose key column is named key and which lacks the columns in
\* dropped.
Csv(key, columns, dropped, rows) ==
    LET cols == ({key} \cup columns) \ dropped
    IN  DataFrame(cols,
            [i \in 1..Len(rows) |->
                [c \in cols |-> IF c = key THEN rows[i]["show_id"] ELSE rows[i][c]]])

Unreachable == [kind |-> "HTTPError"]

\* The runs of Spec: either file may be unreachable
NetflixSources ==
    {Unreachable} \cup
    {Csv(k, NetflixColumns, {}, rows) :
        k \in KeyNames, rows \in Numbered(Titles(Types, Years, GenreTexts))}

ViewershipSources ==
    {Unreachable} \cup
    {Csv(k, ViewershipColumns, {}, rows) :
        k \in KeyNames, rows \in Numbered(Observations(AgeGroups, Regions))}

\* The runs of SpecMerge: keys repeat and miss on either side
MergeNetflixSources ==
    {Csv(k, NetflixColumns, {}, rows) :
        k \in KeyNames, rows \in AnyKeys(Titles(Types, {2019}, {ListLit(<<"Drama">>)}))}

MergeViewershipSources ==
    {Csv(k, ViewershipColumns, {}, rows) :
        k \in KeyNames, rows \in AnyKeys(Observations({"18-25"}, Regions))}

\* The runs of SpecExplode: every text of the genres column
ExplodeNetflixSources ==
    {Csv("id", NetflixColumns, {}, rows) :
        rows \in Numbered(Titles(Types, {2019}, GenreTexts))}

ExplodeViewershipSources ==
    {Csv("show_id", ViewershipColumns, {}, rows) :
        rows \in Numbered(Observations({"18-25"}, Regions))}

\* The runs of SpecSchema: one column is missing from one of the files
SchemaSources(key, columns, rows) ==
    {Csv(key, columns, dropped, r) :
        dropped \in {{}} \cup {{c} : c \in columns}, r \in Numbered(rows)}

SchemaNetflixSources ==
    SchemaSources("id", NetflixColumns,
                  Titles(Types, {2019}, {ListLit(<<"Drama", "Comedy">>)}))

SchemaViewershipSources ==
    SchemaSources("show_id", ViewershipColumns, Observations({"18-25"}, Regions))

\* The runs of SpecBucket: release years around 0 and the years the
\* specification names
BucketYears == (-YearSpan .. YearSpan) \cup {1999, 2021}

BucketNetflixSources ==
    {Csv("id", NetflixColumns, {}, rows) :
        rows \in Numbered(Titles({"SHOW"}, BucketYears, {ListLit(<<"Drama">>)}))}

BucketViewershipSources ==
    {Csv("show_id", ViewershipColumns, {}, rows) :
        rows \in Numbered(Observations({"18-25"}, {"US"}))}

----------------------------------------------------------------------------
(* The notebook's cells *)

\* load_dataset(url): the table pd.read_csv returns, or None after printing
\* the error
load_dataset(src) == IF IsFrame(src) THEN src ELSE None

Init ==
    /\ pc = "load"
    /\ netflix_df = Unbound
    /\ viewership_df = Unbound
    /\ data = Unbound
    /\ last = "start"
    /\ error = "none"
    /\ printed = {}
    /\ shown = {}
    /\ frame = NoFrame
    /\ effects = {}

\* The cell that defines load_dataset and loads the two tables
LoadFrom(nsources, vsources) ==
    /\ pc = "load"
    /\ \E n \in nsources, v \in vsources :
         /\ netflix_df' = load_dataset(n)
         /\ viewership_df' = load_dataset(v)
         /\ printed' = {Msg("Error loading dataset", None) :
                           x \in {y \in {n, v} : ~IsFrame(y)}}
    /\ pc' = "merge"
    /\ last' = "load"
    /\ error' = "none"
    /\ UNCHANGED <<data, shown, frame, effects>>

LoadCell == LoadFrom(NetflixSources, ViewershipSources)

\* The cell that renames the key columns and merges the two tables
MergeCell ==
    /\ pc = "merge"
    /\ pc' = "analysis"
    /\ last' = "merge"
    /\ IF IsFrame(netflix_df) /\ IsFrame(viewership_df)
       THEN LET n == RenameId(netflix_df)
                v == RenameId(viewership_df)
            IN  /\ netflix_df' = n
                /\ viewership_df' = v
                /\ IF "show_id" \in n.cols /\ "show_id" \in v.cols
                   THEN /\ data' = InnerMerge(n, v)
                        /\ error' = "none"
                        /\ printed' = {Msg("We've successfully merged the datasets", None)}
                   ELSE /\ data' = data
                        /\ error' = "KeyError"
                        /\ printed' = {}
       ELSE /\ printed' = {Msg("Failed to load or merge datasets", None)}
            /\ error' = "none"
            /\ UNCHANGED <<netflix_df, viewership_df, data>>
    /\ UNCHANGED <<shown, frame, effects>>

\* A cell that calls analysis function f on the global data.  Evaluating the
\* name data raises NameError when the merge cell never bound it.
CallCell(f) ==
    /\ pc = "analysis"
    /\ last' = f
    /\ IF IsFrame(data)
       THEN LET r == Run(f, data)
            IN  /\ data' = r.data
                /\ error' = r.error
                /\ shown' = r.shown
                /\ printed' = r.printed
                /\ frame' = r.frame
                /\ effects' = effects \cup r.ran
       ELSE /\ error' = "NameError"
            /\ shown' = {}
            /\ printed' = {}
            /\ frame' = NoFrame
            /\ UNCHANGED <<data, effects>>
    /\ UNCHANGED <<pc, netflix_df, viewership_df>>

CallMoviesVsShows == CallCell("plot_movies_vs_shows")

CallGenrePopularity == CallCell("plot_genre_popularity")

CallGenreDistribution == CallCell("plot_genre_distribution_by_region")

CallViewership == CallCell("plot_viewership_by_age_and_region")

Next ==
    \/ LoadCell
    \/ MergeCell
    \/ CallMoviesVsShows
    \/ CallGenrePopularity
    \/ CallGenreDistribution
    \/ CallViewership

Spec == Init /\ [][Next]_vars

\* The load and merge cells alone, on files whose keys repeat
LoadCellMerge == LoadFrom(MergeNetflixSources, MergeViewershipSources)

NextMerge ==
    \/ LoadCellMerge
    \/ MergeCell

SpecMerge == Init /\ [][NextMerge]_vars

\* The whole notebook on files with every text of the genres column
LoadCellExplode == LoadFrom(ExplodeNetflixSources, ExplodeViewershipSources)

NextExplode ==
    \/ LoadCellExplode
    \/ MergeCell
    \/ CallMoviesVsShows
    \/ CallGenrePopularity
    \/ CallGenreDistribution
    \/ CallViewership

SpecExplode == Init /\ [][NextExplode]_vars

\* The whole notebook on files that lack a column
LoadCellSchema == LoadFrom(SchemaNetflixSources, SchemaViewershipSources)

NextSchema ==
    \/ LoadCellSchema
    \/ MergeCell
    \/ CallMoviesVsShows
    \/ CallGenrePopularity
    \/ CallGenreDistribution
    \/ CallViewership

SpecSchema == Init /\ [][NextSchema]_vars

\* The cells that compute year_interval, on a range of release years
LoadCellBucket == LoadFrom(BucketNetflixSources, BucketViewershipSources)

NextBucket ==
    \/ LoadCellBucket
    \/ MergeCell
    \/ CallMoviesVsShows
    \/ CallGenrePopularity

SpecBucket == Init /\ [][NextBucket]_vars

----------------------------------------------------------------------------
(* Claims *)

FailureMsg == Msg("Failed to load or merge datasets", None)

LoadFailed == netflix_df = None \/ viewership_df = None

\* C1: when a load_dataset call returned None, the run takes the failure
\* path: the merge cell prints the failure diagnostic and binds no table, no
\* analysis call renders anything, and no later cell ends in an exception.
C1_FailurePathIsClean ==
    (pc = "analysis" /\ LoadFailed) =>
        /\ ~IsFrame(data)
        /\ (last = "merge" => FailureMsg \in printed)
        /\ shown = {}
        /\ error = "none"

KeysOf(df) == {df.rows[i]["show_id"] : i \in 1..Len(df.rows)}

Occurrences(df, k) == Cardinality({i \in 1..Len(df.rows) : df.rows[i]["show_id"] = k})

SharedKeys == KeysOf(netflix_df) \cap KeysOf(viewership_df)

RECURSIVE PairCount(_)
PairCount(keys) ==
    IF keys = {} THEN 0
    ELSE LET k == CHOOSE x \in keys : TRUE
         IN  Occurrences(netflix_df, k) * Occurrences(viewership_df, k)
             + PairCount(keys \ {k})

Merged == last = "merge" /\ error = "none" /\ IsFrame(data)

GroupedSource ==
    CASE last = "plot_movies_vs_shows" ->
            [rows |-> data.rows, a |-> "year_interval", b |-> "type"]
      [] last = "plot_genre_popularity" ->
            [rows |-> WithYearInterval(DataFrame(data.cols, frame.exploded)).rows,
             a |-> "year_interval", b |-> "genres"]
      [] last = "plot_genre_distribution_by_region" ->
            [rows |-> frame.exploded, a |-> "viewer_region", b |-> "genres"]
      [] last = "plot_viewership_by_age_and_region" ->
            [rows |-> data.rows, a |-> "viewer_age_group", b |-> "viewer_region"]

LongForm == UNION {f.table : f \in shown}

\* C3: the long-form output of every two-dimensional grouping has exactly one
\* row for every pair of a first-dimension value and a second-dimension value
\* of the grouped rows, and the value of a pair without source rows is 0.
C3_ZeroFilledPairs ==
    (last \in Analyses /\ error = "none" /\ IsFrame(data)) =>
        LET g == GroupedSource
            A == {g.rows[i][g.a] : i \in Keyed(g.rows, g.a, g.b)}
            B == {g.rows[i][g.b] : i \in Keyed(g.rows, g.a, g.b)}
        IN  \A x \in A, y \in B :
                LET hits == {r \in LongForm : r.d1 = x /\ r.d2 = y}
                IN  /\ Cardinality(hits) = 1
                    /\ Group(g.rows, g.a, g.b, <<x, y>>) = {} =>
                           \A r \in hits : r.value = PyInt(0)

IsList(x) == x.ty = "list"

\* The rows a source row becomes: one per element, one for an empty list or a scalar
Width(r) ==
    IF IsList(r["genres"]) /\ Len(r["genres"].items) > 0
    THEN Len(r["genres"].items) ELSE 1

\* The rows the source rows before row i become
RECURSIVE Offset(_, _)
Offset(rows, i) == IF i <= 1 THEN 0 ELSE Offset(rows, i - 1) + Width(rows[i - 1])

\* The sum of the list lengths (a scalar counts as one element)
RECURSIVE ElementCount(_, _)
ElementCount(rows, i) ==
    IF i > Len(rows) THEN 0
    ELSE (IF IsList(rows[i]["genres"]) THEN Len(rows[i]["genres"].items) ELSE 1)
         + ElementCount(rows, i + 1)

Reads(f) ==
    CASE f = "plot_movies_vs_shows" -> {"release_year", "type"}
      [] f = "plot_genre_popularity" -> {"genres", "type", "release_year"}
      [] f = "plot_genre_distribution_by_region" -> {"genres", "viewer_region"}
      [] f = "plot_viewership_by_age_and_region" ->
            {"viewer_age_group", "viewer_region", "viewership_count"}

\* C5: an analysis function called on a merged table that lacks a column it
\* reads skips its chart and prints a diagnostic; it does not end in an
\* exception.
C5_MissingColumnIsSkipped ==
    (last \in Analyses /\ IsFrame(data) /\ ~(Reads(last) \subseteq data.cols)) =>
        /\ error = "none"
        /\ printed # {}
        /\ shown = {}

\* C6: a call of an analysis function leaves the table it is given unchanged:
\* the same columns and the same value in every cell.
C6_ArgumentUnchanged ==
    [][(pc = "analysis" /\ IsFrame(data)) => data' = data]_vars

\* C7: parsing the genres texts never runs code taken from the data.
C7_NoCodeFromData == effects = {}

\* C8: year_interval = (release_year // 5) * 5 is computed for every integer
\* year, negative ones included, without error; it is idempotent and
\* monotonic, and maps 2021 to 2020, 1999 to 1995 and 0 to 0.
C8_BucketTotalIdempotentMonotonic ==
    (last = "plot_movies_vs_shows" /\ IsFrame(data)) =>
        /\ error = "none"
        /\ "year_interval" \in data.cols
        /\ \A i \in 1..Len(data.rows) :
               LET y == data.rows[i]["release_year"].v
                   b == data.rows[i]["year_interval"].v
               IN  /\ Bucket(b) = b
                   /\ y = 2021 => b = 2020
                   /\ y = 1999 => b = 1995
                   /\ y = 0 => b = 0
        /\ \A i, j \in 1..Len(data.rows) :
               data.rows[i]["release_year"].v <= data.rows[j]["release_year"].v
                   => data.rows[i]["year_interval"].v <= data.rows[j]["year_interval"].v

\* C8 witness: year_interval computed on a table with a negative year and a
\* later year of another interval
C8_BucketedNegativeAndLater ==
    /\ last = "plot_movies_vs_shows"
    /\ IsFrame(data)
    /\ "year_interval" \in data.cols
    /\ \E i, j \in 1..Len(data.rows) :
           /\ data.rows[i]["release_year"].v < 0
           /\ data.rows[i]["release_year"].v # data.rows[i]["year_interval"].v
           /\ data.rows[j]["release_year"].v = 2021
           /\ data.rows[j]["year_interval"].v = 2020

SkipMsg(region) == Msg("No genre data available. Skipping plot.", region)

\* C9: plot_genre_distribution_by_region renders a pie chart for a region of
\* the merged table exactly when the region has a non-zero genre count, and a
\* region whose genre counts are all zero gets the 'No genre data available'
\* diagnostic and no chart.
C9_EmptyRegionIsFlagged ==
    (last = "plot_genre_distribution_by_region" /\ error = "none" /\ frame.did) =>
        \A i \in 1..Len(data.rows) :
            LET region  == data.rows[i]["viewer_region"]
                nonzero == \E j \in 1..Len(frame.exploded) :
                               /\ frame.exploded[j]["viewer_region"] = region
                               /\ ~IsNull(frame.exploded[j]["genres"])
                chart   == \E f \in shown : f.kind = "pie" /\ f.title = region
            IN  /\ chart <=> nonzero
                /\ ~nonzero => (SkipMsg(region) \in printed /\ ~chart)

\* C10: every analysis call, whatever calls came before it on the same merged
\* table, completes without error and renders the aggregated table it renders
\* as the first call on the freshly merged table.
C10_HistoryIndependent ==
    (last \in Analyses /\ IsFrame(data)) =>
        LET fresh == Run(last, InnerMerge(netflix_df, viewership_df))
        IN  /\ error = "none"
            /\ shown = fresh.shown

====
